---- MODULE Spec2Model ----
(***************************************************************************)
(* compute_directory_sizes (anemoi/datasets/create/size.py): the total     *)
(* size and the number of files of a directory, on the local filesystem    *)
(* or under an "s3://bucket/prefix" location.                              *)
(*                                                                         *)
(* A location is a Python str, modelled as a sequence of one-character     *)
(* strings.  The storage (what the filesystem holds at the location, what  *)
(* the object store lists) is fixed for a behaviour; the program calls     *)
(* compute_directory_sizes on it up to MaxCalls times.                     *)
(***************************************************************************)
EXTENDS Integers, Sequences, FiniteSets, TLC

\* ----------------------------------------------------------------- bounds
MaxTokens == 4      \* a location is at most this many tokens long
MaxEntries == 3     \* subdirectories and files of a local tree, together
MaxSize   == 1      \* byte size of one file or object
MaxPages  == 2      \* pages of a remote listing
MaxObjs   == 2      \* objects of a remote listing
MaxCalls  == 2      \* calls of compute_directory_sizes in one behaviour

\* ------------------------------------------------------------ Python str
S3Scheme == <<"s", "3", ":", "/", "/">>
Slash    == <<"/">>
Empty    == <<>>

Drop(s, k) == SubSeq(s, k + 1, Len(s))

\* str.startswith(p)
StartsWith(s, p) ==
    /\ Len(p) <= Len(s)
    /\ \A j \in 1..Len(p) : s[j] = p[j]

\* str.replace(old, new): every non-overlapping occurrence, left to right
RECURSIVE StrReplace(_, _, _)
StrReplace(s, old, new) ==
    IF s = Empty THEN Empty
    ELSE IF StartsWith(s, old)
         THEN new \o StrReplace(Drop(s, Len(old)), old, new)
         ELSE <<Head(s)>> \o StrReplace(Tail(s), old, new)

\* str.find(sep) + 1: the place of the first occurrence, 0 when there is none
RECURSIVE StrFind(_, _)
StrFind(s, sep) ==
    IF Len(s) < Len(sep) THEN 0
    ELSE IF StartsWith(s, sep) THEN 1
    ELSE LET r == StrFind(Tail(s), sep) IN IF r = 0 THEN 0 ELSE r + 1

\* str.partition(sep), without the separator: always two parts
PartitionFirst(s, sep) ==
    LET i == StrFind(s, sep)
    IN  IF i = 0 THEN <<s, Empty>>
        ELSE <<SubSeq(s, 1, i - 1), Drop(s, i + Len(sep) - 1)>>

\* str.split(sep, 1): at most one split, at the first occurrence of sep
SplitFirst(s, sep) ==
    LET i == StrFind(s, sep)
    IN  IF i = 0 THEN <<s>>
        ELSE <<SubSeq(s, 1, i - 1), Drop(s, i + Len(sep) - 1)>>

\* path.replace("s3://", "").split("/", 1)          (line 92, right-hand side)
S3Parts(p) == SplitFirst(StrReplace(p, S3Scheme, Empty), Slash)

\* ------------------------------------------------------------- locations
Tokens == {S3Scheme, Slash, <<"b">>, <<"s", "3", ":">>}

RECURSIVE Strings(_)
Strings(k) ==
    IF k = 0 THEN {Empty}
    ELSE LET S == Strings(k - 1) IN S \cup {s \o t : s \in S, t \in Tokens}

Locations == Strings(MaxTokens)

\* ---------------------------------------------------------------- values
None == [absent |-> TRUE]
Report(s, k) == [total_size |-> s, total_number_of_files |-> k]

\* --------------------------------------------------------------- storage
\* What the run finds outside the program.  Local: kind says what the
\* filesystem holds at the location; a tree is parent[d] (the directory that
\* holds directory d, 0 for the root, directory 1) and files[f] (the
\* directory that holds file f, and its size); os.scandir fails on
\* directory noread and os.path.getsize fails on file gone (0: on none).
\* Remote: the pages the paginator yields, a page with no object carrying no
\* 'Contents' key; the request for page failAt fails (0: none does).
Sizes == 0..MaxSize

NoContents == [KeyCount |-> 0]
Page(objs) == IF objs = <<>> THEN NoContents ELSE [Contents |-> objs]

ObjLists == UNION {[1..k -> [Size : Sizes]] : k \in 0..MaxObjs}

\* objs cut into k pages: object i goes to page cut[i], cut not decreasing
PageOf(objs, cut, p) ==
    LET idx == {i \in 1..Len(objs) : cut[i] = p}
    IN  IF idx = {} THEN NoContents
        ELSE Page(SubSeq(objs, CHOOSE i \in idx : \A j \in idx : i <= j,
                               CHOOSE i \in idx : \A j \in idx : i >= j))

Cuts(m, k) ==
    {cut \in [1..m -> 1..k] : \A i \in 1..m : \A j \in i..m : cut[i] <= cut[j]}

Listings ==
    UNION {UNION {{[p \in 1..k |-> PageOf(objs, cut, p)] : cut \in Cuts(Len(objs), k)} :
                     objs \in ObjLists} :
              k \in 1..MaxPages}

Shapes(nd) ==
    {p \in [1..nd -> 0..nd] : p[1] = 0 /\ \A d \in 2..nd : p[d] \in 1..(d - 1)}

NoTree == [parent |-> <<0>>, files |-> <<>>]

Trees ==
    UNION {UNION {[parent : Shapes(nd),
                   files : [1..nf -> [dir : 1..nd, size : Sizes]]] :
                     nf \in 0..(MaxEntries + 1 - nd)} :
              nd \in 1..(MaxEntries + 1)}

Store(k, t, nr, g, ps, fa) ==
    [kind |-> k, parent |-> t.parent, files |-> t.files, noread |-> nr,
     gone |-> g, pages |-> ps, failAt |-> fa]

LocalStores ==
    {Store(k, NoTree, 0, 0, <<NoContents>>, 0) : k \in {"missing", "file"}}
    \cup UNION {{Store("dir", t, nr, g, <<NoContents>>, 0) :
                    nr \in 0..Len(t.parent), g \in 0..Len(t.files)} : t \in Trees}

RemoteStores ==
    UNION {{Store("missing", NoTree, 0, 0, ps, fa) : fa \in 0..Len(ps)} :
              ps \in Listings}

Stores == LocalStores \cup RemoteStores

\* A few locations and a few storages: every location is run against each of
\* the latter, every storage against each of the former.
SomeLocations ==
    {<<"b">>,
     S3Scheme \o <<"b", "/", "b">>,
     S3Scheme \o <<"b">>}

SomeStores ==
    {Store("file", NoTree, 0, 0, <<NoContents>>, 0),
     Store("dir", [parent |-> <<0, 1>>, files |-> <<[dir |-> 2, size |-> 1]>>],
           0, 0, <<Page(<<[Size |-> 1]>>), NoContents>>, 0)}

\* ----------------------------------------------------------------- state
VARIABLES
    path,       \* the location the program is called with
    store,      \* the storage
    pc,         \* where the call is
    results,    \* compute_directory_sizes: results
    ret,        \* what the call returned
    error,      \* the exception that left the call, "" if none
    size, n,    \* the traversal's running totals
    todo,       \* os.walk: directories still to list
    filenames,  \* the files of the directory os.walk yielded, still to size
    parts,      \* <<bucket_name, prefix>>
    client,     \* the boto3 client and its paginator are constructed
    pageIdx,    \* pages the paginator has yielded
    contents,   \* the objects of the current page still to add
    requests,   \* the listing requests issued: <<[Bucket, Prefix], ...>>
    ran,        \* the traversals this call ran
    listed,     \* directories os.walk tried to list in this call
    sized,      \* files os.path.getsize was called on in this call
    faults,     \* failures the storage answered this call with
    seen,       \* pages the loop body has been given in this call
    calls,      \* calls begun
    prev        \* outcome of the previous call

vars == <<path, store, pc, results, ret, error, size, n, todo, filenames, parts,
          client, pageIdx, contents, requests, ran, listed, sized, faults, seen,
          calls, prev>>

input    == <<path, store>>
local    == <<todo, filenames, listed, sized>>
remote   == <<parts, client, pageIdx, contents, requests, seen>>
totals   == <<size, n>>
history  == <<calls, prev>>

Fresh ==
    /\ pc = "call"
    /\ results = None /\ ret = None /\ error = ""
    /\ todo = {} /\ filenames = {}
    /\ parts = <<>> /\ client = FALSE /\ pageIdx = 0 /\ contents = <<>>
    /\ requests = <<>> /\ ran = <<>> /\ listed = {} /\ sized = {}
    /\ faults = 0 /\ seen = <<>>

Init ==
    /\ \/ path \in Locations /\ store \in SomeStores
       \/ path \in SomeLocations /\ store \in Stores
    /\ Fresh
    /\ size = 0 /\ n = 0
    /\ calls = 1 /\ prev = <<>>

\* ------------------------------------------------------- the filesystem
\* os.path.exists(path)
Exists == store.kind # "missing"

\* os.path.isdir(path)
IsDir == store.kind = "dir"

\* os.scandir(d) succeeds
CanList(d) == store.kind = "dir" /\ d # store.noread

Children(d) == {c \in 1..Len(store.parent) : store.parent[c] = d}
FilesIn(d)  == {f \in 1..Len(store.files) : store.files[f].dir = d}

\* os.path.getsize(file_path)
GetSize(f) == store.files[f].size

\* page.get('Contents', [])
PageGet(page) == IF "Contents" \in DOMAIN page THEN page.Contents ELSE <<>>

\* a single list_objects_v2 request, not followed by another
FirstPageOnly == pageIdx >= 1

\* a loop that an empty page ends
EndsOnEmptyPage ==
    \/ pageIdx = Len(store.pages)
    \/ pageIdx >= 1 /\ PageGet(store.pages[pageIdx]) = <<>>

\* line 100: the paginator has yielded its last page
Exhausted == pageIdx = Len(store.pages)

\* --------------------------------------------- compute_directory_sizes
\* "s3://" in path
IsS3Anywhere(p) == StrFind(p, S3Scheme) # 0

\* line 37: path.startswith("s3://")
IsS3(p) == StartsWith(p, S3Scheme)

\* lines 37-40: the traversal is chosen by the location's prefix
Call ==
    /\ pc = "call"
    /\ IF IsS3(path)
       THEN pc' = "s3_split" /\ ran' = Append(ran, "s3")
       ELSE pc' = "local_isdir" /\ ran' = Append(ran, "local")
    /\ UNCHANGED <<input, results, ret, error, totals, todo, filenames, listed,
                   sized, remote, faults, history>>

\* lines 42-49: None, with a warning, or the traversal's report
Check ==
    /\ pc = "check"
    /\ ret' = IF results = None THEN None ELSE results
    /\ pc' = "done"
    /\ UNCHANGED <<input, results, error, totals, local, remote, ran, faults,
                   history>>

\* --------------------------------------- compute_directory_sizes_local
\* lines 65-66
LocalIsDir ==
    /\ pc = "local_isdir"
    /\ IF ~IsDir
       THEN results' = None /\ pc' = "check"
       ELSE results' = results /\ pc' = "local_init"
    /\ UNCHANGED <<input, ret, error, totals, local, remote, ran, faults, history>>

\* totals kept outside the function, never set back to 0
LocalInitKeep ==
    /\ pc = "local_init"
    /\ todo' = {1}
    /\ pc' = "walk"
    /\ UNCHANGED <<input, results, ret, error, totals, filenames, listed, sized,
                   remote, ran, faults, history>>

\* lines 68-69: the totals start at 0; os.walk(path) starts at the root
LocalInit ==
    /\ pc = "local_init"
    /\ size' = 0 /\ n' = 0
    /\ todo' = {1}
    /\ pc' = "walk"
    /\ UNCHANGED <<input, results, ret, error, filenames, listed, sized, remote,
                   ran, faults, history>>

\* line 70: os.walk lists one more directory, in any order.  A directory it
\* cannot list is skipped (os.walk is called without onerror, and ignores the
\* error of os.scandir); of one it can, it yields the files and goes on to
\* the subdirectories.
WalkNext ==
    /\ pc = "walk"
    /\ \E d \in todo :
          /\ listed' = listed \cup {d}
          /\ IF CanList(d)
             THEN /\ todo' = (todo \ {d}) \cup Children(d)
                  /\ filenames' = FilesIn(d)
                  /\ pc' = IF FilesIn(d) = {} THEN "walk" ELSE "files"
                  /\ faults' = faults
             ELSE /\ todo' = todo \ {d}
                  /\ filenames' = {}
                  /\ pc' = "walk"
                  /\ faults' = faults + 1
    /\ UNCHANGED <<input, results, ret, error, totals, sized, remote, ran, history>>

\* lines 71-74: one file of the directory; getsize raises OSError on a file
\* that is not there any more
LocalGetSize ==
    /\ pc = "files"
    /\ \E f \in filenames :
          IF f = store.gone
          THEN /\ error' = "OSError" /\ pc' = "raised"
               /\ faults' = faults + 1
               /\ UNCHANGED <<totals, filenames, sized>>
          ELSE /\ size' = size + GetSize(f)
               /\ n' = n + 1
               /\ sized' = sized \cup {f}
               /\ filenames' = filenames \ {f}
               /\ pc' = IF filenames \ {f} = {} THEN "walk" ELSE "files"
               /\ UNCHANGED <<error, faults>>
    /\ UNCHANGED <<input, results, ret, todo, listed, remote, ran, history>>

\* line 76: os.walk is exhausted
LocalReturn ==
    /\ pc = "walk" /\ todo = {}
    /\ results' = Report(size, n)
    /\ pc' = "check"
    /\ UNCHANGED <<input, ret, error, totals, local, remote, ran, faults, history>>

\* ------------------------------------------ compute_directory_sizes_s3
\* line 92: unpacking anything but two parts raises ValueError
S3Split ==
    /\ pc = "s3_split"
    /\ IF Len(S3Parts(path)) # 2
       THEN error' = "ValueError" /\ pc' = "raised" /\ parts' = parts
       ELSE error' = error /\ pc' = "s3_client" /\ parts' = S3Parts(path)
    /\ UNCHANGED <<input, results, ret, totals, local, client, pageIdx, contents,
                   requests, seen, ran, faults, history>>

\* lines 94-98: the client, its paginator, and the totals at 0
S3Client ==
    /\ pc = "s3_client"
    /\ client' = TRUE
    /\ size' = 0 /\ n' = 0
    /\ pageIdx' = 0
    /\ pc' = "s3_paginate"
    /\ UNCHANGED <<input, results, ret, error, local, parts, contents, requests,
                   seen, ran, faults, history>>

\* lines 100-101: the paginator requests the next page; a failing request
\* raises
S3NextPage ==
    /\ pc = "s3_paginate" /\ ~Exhausted
    /\ requests' = Append(requests, [Bucket |-> parts[1], Prefix |-> parts[2]])
    /\ IF store.failAt = pageIdx + 1
       THEN /\ error' = "ClientError" /\ pc' = "raised"
            /\ faults' = faults + 1
            /\ UNCHANGED <<pageIdx, contents, seen>>
       ELSE /\ pageIdx' = pageIdx + 1
            /\ seen' = Append(seen, store.pages[pageIdx + 1])
            /\ contents' = PageGet(store.pages[pageIdx + 1])
            /\ pc' = IF PageGet(store.pages[pageIdx + 1]) = <<>>
                     THEN "s3_paginate" ELSE "s3_objs"
            /\ UNCHANGED <<error, faults>>
    /\ UNCHANGED <<input, results, ret, totals, local, parts, client, ran, history>>

\* lines 102-104: one object of the page
S3Obj ==
    /\ pc = "s3_objs"
    /\ n' = n + 1
    /\ size' = size + Head(contents).Size
    /\ contents' = Tail(contents)
    /\ pc' = IF Tail(contents) = <<>> THEN "s3_paginate" ELSE "s3_objs"
    /\ UNCHANGED <<input, results, ret, error, local, parts, client, pageIdx,
                   requests, seen, ran, faults, history>>

\* None for a listing without objects, as the local traversal's None
S3ReturnAbsent ==
    /\ pc = "s3_paginate" /\ Exhausted
    /\ results' = IF n = 0 THEN None ELSE Report(size, n)
    /\ pc' = "check"
    /\ UNCHANGED <<input, ret, error, totals, local, remote, ran, faults, history>>

\* line 106: the paginator has no further page
S3Return ==
    /\ pc = "s3_paginate" /\ Exhausted
    /\ results' = Report(size, n)
    /\ pc' = "check"
    /\ UNCHANGED <<input, ret, error, totals, local, remote, ran, faults, history>>

\* ------------------------------------------------------------ the caller
Outcome == <<pc, ret, error>>

\* The caller calls again, on the same location and the same storage.  The
\* frame of the last call is gone; size and n hold whatever it left, until
\* the next traversal sets them.
CallAgain ==
    /\ pc \in {"done", "raised"}
    /\ calls < MaxCalls
    /\ calls' = calls + 1
    /\ prev' = Outcome
    /\ pc' = "call"
    /\ results' = None /\ ret' = None /\ error' = ""
    /\ todo' = {} /\ filenames' = {}
    /\ parts' = <<>> /\ client' = FALSE /\ pageIdx' = 0 /\ contents' = <<>>
    /\ requests' = <<>> /\ ran' = <<>> /\ listed' = {} /\ sized' = {}
    /\ faults' = 0 /\ seen' = <<>>
    /\ UNCHANGED <<input, totals>>

Next ==
    \/ Call \/ Check
    \/ LocalIsDir \/ LocalInit \/ WalkNext \/ LocalGetSize \/ LocalReturn
    \/ S3Split \/ S3Client \/ S3NextPage \/ S3Obj \/ S3Return
    \/ CallAgain

Spec == Init /\ [][Next]_vars

\* The remote traversal alone, on every listing.  The program is one thread
\* that runs to its end: a step that can be taken is taken.
InitRemote ==
    /\ path \in {S3Scheme \o <<"b", "/", "b">>, S3Scheme \o <<"b", "/">>}
    /\ store \in RemoteStores
    /\ Fresh
    /\ size = 0 /\ n = 0
    /\ calls = 1 /\ prev = <<>>

NextRemote ==
    \/ Call \/ Check
    \/ S3Split \/ S3Client \/ S3NextPage \/ S3Obj \/ S3Return
    \/ CallAgain

RemoteSpec ==
    /\ InitRemote
    /\ [][NextRemote]_vars
    /\ WF_vars(NextRemote)

\* ======================================================== the properties
\* What the properties say of a location and of a storage is written here
\* without the program's own string and traversal operators.
BeginsWithScheme(p) ==
    /\ Len(p) >= 5
    /\ p[1] = "s" /\ p[2] = "3" /\ p[3] = ":" /\ p[4] = "/" /\ p[5] = "/"

\* the location after its leading "s3://"
RestOf(p) == [i \in 1..(Len(p) - 5) |-> p[i + 5]]

SlashesOf(r) == {i \in 1..Len(r) : r[i] = "/"}

FirstSlash(r) == CHOOSE i \in SlashesOf(r) : \A j \in SlashesOf(r) : i <= j

BucketOf(p) ==
    LET r == RestOf(p) IN [i \in 1..(FirstSlash(r) - 1) |-> r[i]]

PrefixOf(p) ==
    LET r == RestOf(p)
        k == FirstSlash(r)
    IN  [i \in 1..(Len(r) - k) |-> r[i + k]]

RECURSIVE SumFiles(_)
SumFiles(fs) == IF fs = <<>> THEN 0 ELSE Head(fs).size + SumFiles(Tail(fs))

\* all pages as one page
RECURSIVE Concatenated(_)
Concatenated(ps) ==
    IF ps = <<>> THEN <<>>
    ELSE (IF "Contents" \in DOMAIN Head(ps) THEN Head(ps).Contents ELSE <<>>)
         \o Concatenated(Tail(ps))

RECURSIVE SumObjs(_)
SumObjs(os) == IF os = <<>> THEN 0 ELSE Head(os).Size + SumObjs(Tail(os))

IsPrefix(s, t) == Len(s) <= Len(t) /\ \A i \in 1..Len(s) : s[i] = t[i]

Returned == pc = "done"
Ended    == pc \in {"done", "raised"}

\* C1: for an existing local directory, the call returns the sum of the
\* sizes of all files of the tree and their number, whatever the order of
\* the walk.
C1_LocalTotals ==
    (Returned /\ ~BeginsWithScheme(path) /\ store.kind = "dir")
        => ret = Report(SumFiles(store.files), Len(store.files))

\* The same, of the trees every directory of which can be listed.
LocalTotalsWhenAllListed ==
    (Returned /\ ~BeginsWithScheme(path) /\ store.kind = "dir" /\ store.noread = 0)
        => ret = Report(SumFiles(store.files), Len(store.files))

\* C2: a local location that is missing, or is a regular file, makes the
\* call return None at once: nothing is listed, nothing is sized, no report
\* is returned and nothing is raised.
C2_NotADirectory ==
    (~BeginsWithScheme(path) /\ store.kind # "dir")
        => /\ pc \in {"call", "local_isdir", "check", "done"}
           /\ listed = {} /\ sized = {}
           /\ results = None
           /\ Returned => ret = None

C2_Witness ==
    /\ Returned /\ ~BeginsWithScheme(path) /\ store.kind = "file"
    /\ ret = None /\ ran = <<"local">>

C4_PagesTransparent ==
    (Returned /\ BeginsWithScheme(path))
        => ret = Report(SumObjs(Concatenated(store.pages)),
                        Len(Concatenated(store.pages)))

C4_Witness ==
    /\ Returned /\ BeginsWithScheme(path)
    /\ Len(store.pages) = 2
    /\ \A i \in 1..2 : "Contents" \in DOMAIN store.pages[i]
    /\ ret.total_number_of_files = 2 /\ ret.total_size >= 1

\* C5: "s3://" followed by no "/" is rejected with an error before the
\* client is constructed and before any request: nothing is returned.
C5_MalformedRejected ==
    (BeginsWithScheme(path) /\ SlashesOf(RestOf(path)) = {})
        => /\ pc \in {"call", "s3_split", "raised"}
           /\ pc = "raised" => error = "ValueError"
           /\ client = FALSE /\ requests = <<>>

C5_Witness ==
    /\ BeginsWithScheme(path) /\ SlashesOf(RestOf(path)) = {}
    /\ Len(path) > 5
    /\ pc = "raised" /\ error = "ValueError" /\ client = FALSE

\* C6: a failure of the storage during the enumeration ends the call with an
\* error: no report is computed from a partial enumeration.
C6_FailuresAreFatal == (Ended /\ faults > 0) => pc = "raised"

\* C7: a repeated call on the same location and the same storage ends as the
\* call before it did.
C7_Idempotent == (Ended /\ calls >= 2) => Outcome = prev

C7_Witness ==
    /\ Returned /\ calls = 2 /\ ret # None /\ ret.total_size >= 2
    /\ prev = Outcome

\* C8: a call runs exactly one traversal, the remote one if and only if the
\* location begins with "s3://", and returns that traversal's result.
C8_Dispatch ==
    /\ pc = "call" => ran = <<>>
    /\ pc # "call" =>
          ran = IF BeginsWithScheme(path) THEN <<"s3">> ELSE <<"local">>
    /\ Returned => ret = results

C8_Witness ==
    /\ Returned /\ ran = <<"local">> /\ ret = results /\ ret # None
    /\ \E i \in 1..Len(path) : IsPrefix(S3Scheme, SubSeq(path, i, Len(path)))

\* C9: for "s3://" + rest with a "/" in rest, the listing is requested with
\* Bucket the part of rest before its first "/" and Prefix all that follows
\* it, unaltered.
C9_BucketAndPrefix ==
    (BeginsWithScheme(path) /\ SlashesOf(RestOf(path)) # {})
        => /\ error # "ValueError"
           /\ parts \in {<<>>, <<BucketOf(path), PrefixOf(path)>>}
           /\ \A i \in 1..Len(requests) :
                 requests[i] = [Bucket |-> BucketOf(path), Prefix |-> PrefixOf(path)]

\* C10: the remote traversal is given the pages one at a time, in order,
\* each once, a page without 'Contents' included, and ends only after the
\* last page; when no request fails it ends, and returns a report.
PagesInOrder ==
    /\ IsPrefix(seen, store.pages)
    /\ Len(seen) = pageIdx
    /\ (pc \in {"check", "done"} /\ BeginsWithScheme(path))
          => seen = store.pages /\ Len(requests) = Len(store.pages)

C10_AllPages ==
    /\ []PagesInOrder
    /\ (pc = "s3_paginate" /\ store.failAt = 0) ~> (Returned /\ ret # None)

C10_Witness ==
    /\ Returned /\ BeginsWithScheme(path)
    /\ Len(store.pages) = 2
    /\ store.pages[1] = NoContents /\ store.pages[2] # NoContents
    /\ ret.total_number_of_files = 2

====
